---- MODULE Spec2Model ----
(***************************************************************************)
(* Model of scripts/analyze_build_times.py: the trace decoder              *)
(* (parse_trace_file) and the aggregation of its results over the trace    *)
(* files of a build (analyze_parse_times).                                 *)
(*                                                                         *)
(* Conventions.                                                            *)
(*  - A Python str is a sequence of one-character strings, so that the     *)
(*    `in` substring test is computed and not assumed.                     *)
(*  - A Python dict is a function with a finite domain; dict.get is Get,   *)
(*    an item assignment is Put.  A defaultdict(list) is such a function   *)
(*    read through Get(d, k, <<>>); a read of a missing key inserts it.    *)
(*  - A float is an exact rational in lowest terms, [num, den], den > 0.   *)
(*  - None and "" are both the empty sequence where the code only tests    *)
(*    the value for truth (the subject of an event).                       *)
(***************************************************************************)
EXTENDS Integers, Sequences, FiniteSets, TLC

VARIABLES
    trace_files,    \* find_trace_files(build_dir): the contents of the files found
    headers,        \* the requested identifiers (patterns)
    pc,             \* position in analyze_parse_times / parse_trace_file
    file_idx,       \* number of trace files already aggregated
    data,           \* parse_trace_file: the loaded document
    ev_idx,         \* parse_trace_file: index of the next event of the running pass
    header_times,   \* parse_trace_file: the result mapping
    open_events,    \* parse_trace_file: defaultdict(list) of open begin events
    durations,      \* analyze_parse_times: defaultdict(list), header -> durations
    metrics_by_header  \* analyze_parse_times: the result

vars == <<trace_files, headers, pc, file_idx, data, ev_idx, header_times,
          open_events, durations, metrics_by_header>>

----------------------------------------------------------------------------
(* Bounds of the model. *)

MaxEvents == 3

MaxSyncEvents == 4

MaxFiles == 2

----------------------------------------------------------------------------
(* Python values. *)

EmptyDict == [k \in {} |-> 0]

Get(d, k, default) == IF k \in DOMAIN d THEN d[k] ELSE default

Put(d, k, v) == [x \in (DOMAIN d) \cup {k} |-> IF x = k THEN v ELSE d[x]]

Truthy(s) == s # <<>>

PyOr(x, y) == IF Truthy(x) THEN x ELSE y

\* `pattern in header` for two str values: some window of header equals pattern.
StrContains(pattern, header) ==
    \E i \in 0..(Len(header) - Len(pattern)) :
        SubSeq(header, i + 1, i + Len(pattern)) = pattern

Abs(n) == IF n < 0 THEN -n ELSE n

RECURSIVE Gcd(_, _)
Gcd(a, b) == IF b = 0 THEN a ELSE Gcd(b, a % b)

Rat(n, d) ==
    LET g == Gcd(Abs(n), d)
    IN  [num |-> n \div g, den |-> d \div g]

Zero == Rat(0, 1)

RatLess(a, b) == a.num * b.den < b.num * a.den

RatAdd(a, b) == Rat(a.num * b.den + b.num * a.den, a.den * b.den)

RatSub(a, b) == Rat(a.num * b.den - b.num * a.den, a.den * b.den)

RatMul(a, b) == Rat(a.num * b.num, a.den * b.den)

RatDivInt(a, n) == Rat(a.num, a.den * n)

\* max(a, b) of two floats: the first argument unless the second is greater.
PyMax(a, b) == IF RatLess(a, b) THEN b ELSE a

\* x / 1000.0 for an integer number of microseconds.
UsToMs(us) == Rat(us, 1000)

----------------------------------------------------------------------------
(* parse_trace_file *)

PH_BEGIN == {"B", "b"}

PH_END == {"E", "e"}

PARSE_EVENT_NAMES ==
    {"ParseFile", "ParseClass", "ParseTemplate", "InstantiateFunction",
     "InstantiateClass"}

\* args.get("file") or args.get("detail"), with args = ev.get("args", {}).
HeaderPath(ev) ==
    LET args == Get(ev, "args", EmptyDict)
    IN  PyOr(Get(args, "file", <<>>), Get(args, "detail", <<>>))

\* data.get("traceEvents", [])
TraceEvents(doc) == Get(doc, "traceEvents", <<>>)

\* Variant of MergeMax: the new duration replaces the recorded one.
MergeOverwrite(ht, header_path, dur_ms) == Put(ht, header_path, dur_ms)

\* header_times[header_path] = max(header_times.get(header_path, 0.0), dur_ms)
MergeMax(ht, header_path, dur_ms) ==
    Put(ht, header_path, PyMax(Get(ht, header_path, Zero), dur_ms))

\* ev_name != "Source" and ev_name not in PARSE_EVENT_NAMES, negated.
AcceptedName(ev_name) == ev_name = "Source" \/ ev_name \in PARSE_EVENT_NAMES

\* One iteration of the first loop (Complete events).
FirstPassStep(ht, ev) ==
    IF Get(ev, "ph", "None") # "X" THEN ht
    ELSE IF ~AcceptedName(Get(ev, "name", "")) THEN ht
    ELSE IF ~Truthy(HeaderPath(ev)) THEN ht
    ELSE MergeMax(ht, HeaderPath(ev), UsToMs(Get(ev, "dur", 0)))

\* The key of the open-event stacks: tid = ev.get("tid", 0).
PairKey(ev) == Get(ev, "tid", 0)

\* Variant of BeginEvent: the subject gets an entry of 0.0 when it is opened.
BeginEventEager(st, tid, header_path, ts) ==
    [header_times |-> MergeMax(st.header_times, header_path, Zero),
     open_events  |-> Put(st.open_events, tid,
                          Append(Get(st.open_events, tid, <<>>), <<header_path, ts>>))]

\* open_events[tid].append((header_path, ev.get("ts", 0)))
BeginEvent(st, tid, header_path, ts) ==
    [header_times |-> st.header_times,
     open_events  |-> Put(st.open_events, tid,
                          Append(Get(st.open_events, tid, <<>>), <<header_path, ts>>))]

\* Variant of EndEvent: the duration of the pair replaces the recorded one.
EndEventOverwrite(st, tid, ts) ==
    LET stack == Get(st.open_events, tid, <<>>)
        top   == stack[Len(stack)]
    IN  IF stack = <<>>
        THEN [header_times |-> st.header_times,
              open_events  |-> Put(st.open_events, tid, <<>>)]
        ELSE [header_times |-> Put(st.header_times, top[1], UsToMs(ts - top[2])),
              open_events  |-> Put(st.open_events, tid,
                                   SubSeq(stack, 1, Len(stack) - 1))]

\* elif ph in PH_END and open_events[tid]: pop the innermost entry and merge.
\* The read open_events[tid] inserts an empty list for a missing key.
EndEvent(st, tid, ts) ==
    LET stack == Get(st.open_events, tid, <<>>)
        top   == stack[Len(stack)]
    IN  IF stack = <<>>
        THEN [header_times |-> st.header_times,
              open_events  |-> Put(st.open_events, tid, <<>>)]
        ELSE [header_times |-> MergeMax(st.header_times, top[1],
                                        UsToMs(ts - top[2])),
              open_events  |-> Put(st.open_events, tid,
                                   SubSeq(stack, 1, Len(stack) - 1))]

\* One iteration of the second loop (begin/end events).
SecondPassStep(st, ev) ==
    LET ph == Get(ev, "ph", "None")
    IN  IF ph \notin (PH_BEGIN \cup PH_END) THEN st
        ELSE IF Get(ev, "name", "") # "Source" THEN st
        ELSE IF ph \in PH_BEGIN
             THEN IF ~Truthy(HeaderPath(ev)) THEN st
                  ELSE BeginEvent(st, PairKey(ev), HeaderPath(ev), Get(ev, "ts", 0))
             ELSE EndEvent(st, PairKey(ev), Get(ev, "ts", 0))

RECURSIVE FirstPass(_, _)
FirstPass(ht, events) ==
    IF events = <<>> THEN ht
    ELSE FirstPass(FirstPassStep(ht, Head(events)), Tail(events))

RECURSIVE SecondPass(_, _)
SecondPass(st, events) ==
    IF events = <<>> THEN st
    ELSE SecondPass(SecondPassStep(st, Head(events)), Tail(events))

\* parse_trace_file of a loaded document, as the function it is.
ParseTraceFile(doc) ==
    SecondPass([header_times |-> FirstPass(EmptyDict, TraceEvents(doc)),
                open_events  |-> EmptyDict],
               TraceEvents(doc)).header_times

\* json.load(f) succeeds on the file's content.
JsonLoads(content) == "malformed" \notin DOMAIN content

----------------------------------------------------------------------------
(* analyze_parse_times *)

\* Variant of MatchesAny: every requested identifier must occur in the header.
MatchesAll(header, patterns) == \A pattern \in patterns : StrContains(pattern, header)

\* any(pattern in header for pattern in headers)
MatchesAny(header, patterns) == \E pattern \in patterns : StrContains(pattern, header)

\* Variant of AppendMatching: the file's duration replaces the list.
AppendLast(durs, ht, patterns) ==
    LET kept == {h \in DOMAIN ht : MatchesAny(h, patterns)}
    IN  [h \in (DOMAIN durs) \cup kept |->
            IF h \in kept THEN <<ht[h]>> ELSE durs[h]]

\* Variant of AppendMatching: one append for each requested identifier that occurs.
AppendPerPattern(durs, ht, patterns) ==
    LET kept == {h \in DOMAIN ht : MatchesAny(h, patterns)}
        n(h) == Cardinality({p \in patterns : StrContains(p, h)})
    IN  [h \in (DOMAIN durs) \cup kept |->
            IF h \in kept
            THEN Get(durs, h, <<>>) \o [i \in 1..n(h) |-> ht[h]]
            ELSE durs[h]]

\* The loop over one file's items: if any(...): durations[header].append(dur).
AppendMatching(durs, ht, patterns) ==
    LET kept == {h \in DOMAIN ht : MatchesAny(h, patterns)}
    IN  [h \in (DOMAIN durs) \cup kept |->
            IF h \in kept THEN Append(Get(durs, h, <<>>), ht[h]) ELSE durs[h]]

RECURSIVE SumOf(_)
SumOf(times) == IF times = <<>> THEN Zero ELSE RatAdd(Head(times), SumOf(Tail(times)))

RECURSIVE MaxOf(_)
MaxOf(times) ==
    IF Len(times) = 1 THEN times[1] ELSE PyMax(times[1], MaxOf(Tail(times)))

RECURSIVE SumSq(_, _)
SumSq(times, avg) ==
    IF times = <<>> THEN Zero
    ELSE RatAdd(RatMul(RatSub(Head(times), avg), RatSub(Head(times), avg)),
                SumSq(Tail(times), avg))

\* std_dev is kept as its radicand: math.sqrt(variance), and 0.0 = sqrt(0).
StdDev(times) ==
    IF Len(times) > 1
    THEN [radicand |-> RatDivInt(SumSq(times, RatDivInt(SumOf(times), Len(times))),
                                 Len(times) - 1)]
    ELSE [radicand |-> Zero]

Stats(times) ==
    [total_time  |-> SumOf(times),
     avg_time    |-> RatDivInt(SumOf(times), Len(times)),
     max_time    |-> MaxOf(times),
     std_dev     |-> StdDev(times),
     parse_count |-> Len(times)]

\* The loop over durations.items(), skipping empty lists.
Metrics(durs) == [h \in {k \in DOMAIN durs : durs[k] # <<>>} |-> Stats(durs[h])]

----------------------------------------------------------------------------
(* The inputs: trace events, documents and file sets. *)

HdrA == <<"a", ".", "h">>

HdrIncA == <<"i", "/", "a", ".", "h">>

HdrB == <<"b", ".", "h">>

Malformed == [malformed |-> TRUE]

NoEventsDoc == [displayTimeUnit |-> "ns"]

Args(file, detail) == [file |-> file, detail |-> detail]

ArgsFile(file) == [file |-> file]

ArgsDetail(detail) == [detail |-> detail]

Complete(ph, name, args, dur, ts) ==
    [ph |-> ph, name |-> name, args |-> args, dur |-> dur, ts |-> ts, tid |-> 1]

\* The kinds of event of the decoder's documents, time-stamped by the caller.
DecodeKinds == 1..14

DecodeEvent(k, ts) ==
    CASE k = 1  -> Complete("X", "Source", ArgsFile(HdrA), 2000, ts)
      [] k = 2  -> Complete("X", "ParseClass", Args(<<>>, HdrA), 500, ts)
      [] k = 3  -> Complete("X", "InstantiateClass", Args(HdrB, HdrA), 4000, ts)
      [] k = 4  -> Complete("X", "Frontend", ArgsFile(HdrA), 4000, ts)
      [] k = 5  -> [ph |-> "X", name |-> "Source", dur |-> 4000, ts |-> ts, tid |-> 1]
      [] k = 6  -> Complete("x", "Source", ArgsFile(HdrA), 4000, ts)
      [] k = 7  -> [ph |-> "B", name |-> "Source", args |-> ArgsFile(HdrA),
                    ts |-> ts, tid |-> 1]
      [] k = 8  -> [ph |-> "b", name |-> "Source", args |-> ArgsDetail(HdrB),
                    ts |-> ts, tid |-> 1, id |-> 1]
      [] k = 9  -> [ph |-> "B", name |-> "Source", ts |-> ts, tid |-> 1]
      [] k = 10 -> [ph |-> "E", name |-> "Source", ts |-> ts, tid |-> 1]
      [] k = 11 -> [ph |-> "e", name |-> "Source", ts |-> ts, tid |-> 2, id |-> 1]
      [] k = 12 -> [ph |-> "e", name |-> "Source", ts |-> ts, tid |-> 1, id |-> 2]
      [] k = 13 -> [ph |-> "E", name |-> "Frontend", ts |-> ts, tid |-> 1]
      [] k = 14 -> [ph |-> "i", name |-> "Source", args |-> ArgsFile(HdrA),
                    ts |-> ts, tid |-> 1]

\* The kinds of event of a single-thread begin/end document.
SyncKinds == 1..4

SyncEvent(k, ts) ==
    CASE k = 1 -> [ph |-> "B", name |-> "Source", args |-> ArgsFile(HdrA),
                   ts |-> ts, tid |-> 1]
      [] k = 2 -> [ph |-> "B", name |-> "Source", args |-> ArgsDetail(HdrB),
                   ts |-> ts, tid |-> 1]
      [] k = 3 -> [ph |-> "B", name |-> "Source", ts |-> ts, tid |-> 1]
      [] k = 4 -> [ph |-> "E", name |-> "Source", ts |-> ts, tid |-> 1]

\* Documents of at most n events; the i-th event is stamped i milliseconds.
DecodeDocs ==
    {[traceEvents |-> [i \in 1..n |-> DecodeEvent(s[i], 1000 * i)]] :
        n \in 0..MaxEvents, s \in [1..MaxEvents -> DecodeKinds]}

SyncDocs ==
    {[traceEvents |-> [i \in 1..n |-> SyncEvent(s[i], 1000 * i)]] :
        n \in 0..MaxSyncEvents, s \in [1..MaxSyncEvents -> SyncKinds]}

\* The documents of the aggregation runs.
OneComplete(header, dur) ==
    [traceEvents |-> <<Complete("X", "Source", ArgsFile(header), dur, 0)>>]

AggDocs ==
    {OneComplete(HdrIncA, 2000),
     OneComplete(HdrIncA, 4000),
     OneComplete(HdrB, 500),
     [traceEvents |-> <<Complete("X", "ParseFile", ArgsDetail(HdrA), 1000, 0),
                        SyncEvent(2, 1000), SyncEvent(4, 4000)>>],
     NoEventsDoc}

HeaderSets == {{}, {HdrA}, {HdrA, <<"i", "/">>}, {HdrB, <<"h">>}}

SeqsUpTo(S, n) == UNION {[1..m -> S] : m \in 0..n}

----------------------------------------------------------------------------
(* The state machine. *)

InitRun ==
    /\ pc = "files"
    /\ file_idx = 0
    /\ data = EmptyDict
    /\ ev_idx = 1
    /\ header_times = EmptyDict
    /\ open_events = EmptyDict
    /\ durations = EmptyDict
    /\ metrics_by_header = EmptyDict

\* Several trace files, any set of requested identifiers.
Init ==
    /\ trace_files \in SeqsUpTo(AggDocs \cup {Malformed}, MaxFiles)
    /\ headers \in HeaderSets
    /\ InitRun

\* One trace file over the full range of events.
InitDecode ==
    /\ trace_files \in {<<f>> : f \in DecodeDocs \cup {Malformed, NoEventsDoc}}
    /\ headers = {HdrA}
    /\ InitRun

\* One trace file of begin/end events of one thread.
InitSync ==
    /\ trace_files \in {<<f>> : f \in SyncDocs \cup {Malformed}}
    /\ headers = {HdrA}
    /\ InitRun

\* for trace_file in trace_files: parse_trace_file(trace_file): json.load succeeds.
LoadTraceFile ==
    /\ pc = "files"
    /\ file_idx < Len(trace_files)
    /\ JsonLoads(trace_files[file_idx + 1])
    /\ data' = trace_files[file_idx + 1]
    /\ header_times' = EmptyDict
    /\ open_events' = EmptyDict
    /\ ev_idx' = 1
    /\ pc' = "pass1"
    /\ UNCHANGED <<trace_files, headers, file_idx, durations, metrics_by_header>>

\* json.load raises; nothing catches it in parse_trace_file, analyze_parse_times
\* or main, so the run ends with the exception.
LoadRaises ==
    /\ pc = "files"
    /\ file_idx < Len(trace_files)
    /\ ~JsonLoads(trace_files[file_idx + 1])
    /\ pc' = "raised"
    /\ UNCHANGED <<trace_files, headers, file_idx, data, ev_idx, header_times,
                   open_events, durations, metrics_by_header>>

FirstPassEvent ==
    /\ pc = "pass1"
    /\ ev_idx <= Len(TraceEvents(data))
    /\ header_times' = FirstPassStep(header_times, TraceEvents(data)[ev_idx])
    /\ ev_idx' = ev_idx + 1
    /\ UNCHANGED <<trace_files, headers, pc, file_idx, data, open_events,
                   durations, metrics_by_header>>

FirstPassDone ==
    /\ pc = "pass1"
    /\ ev_idx > Len(TraceEvents(data))
    /\ open_events' = EmptyDict
    /\ ev_idx' = 1
    /\ pc' = "pass2"
    /\ UNCHANGED <<trace_files, headers, file_idx, data, header_times,
                   durations, metrics_by_header>>

SecondPassEvent ==
    /\ pc = "pass2"
    /\ ev_idx <= Len(TraceEvents(data))
    /\ LET st == SecondPassStep([header_times |-> header_times,
                                 open_events  |-> open_events],
                                TraceEvents(data)[ev_idx])
       IN  /\ header_times' = st.header_times
           /\ open_events' = st.open_events
    /\ ev_idx' = ev_idx + 1
    /\ UNCHANGED <<trace_files, headers, pc, file_idx, data, durations,
                   metrics_by_header>>

\* return header_times
Return ==
    /\ pc = "pass2"
    /\ ev_idx > Len(TraceEvents(data))
    /\ pc' = "returned"
    /\ UNCHANGED <<trace_files, headers, file_idx, data, ev_idx, header_times,
                   open_events, durations, metrics_by_header>>

\* The inner loop of analyze_parse_times over the returned mapping.
Aggregate ==
    /\ pc = "returned"
    /\ durations' = AppendMatching(durations, header_times, headers)
    /\ file_idx' = file_idx + 1
    /\ pc' = "files"
    /\ UNCHANGED <<trace_files, headers, data, ev_idx, header_times, open_events,
                   metrics_by_header>>

\* The loop over the trace files is over: compute the metrics and return them.
Summarize ==
    /\ pc = "files"
    /\ file_idx = Len(trace_files)
    /\ metrics_by_header' = Metrics(durations)
    /\ pc' = "done"
    /\ UNCHANGED <<trace_files, headers, file_idx, data, ev_idx, header_times,
                   open_events, durations>>

Next ==
    \/ LoadTraceFile
    \/ LoadRaises
    \/ FirstPassEvent
    \/ FirstPassDone
    \/ SecondPassEvent
    \/ Return
    \/ Aggregate
    \/ Summarize

Spec == Init /\ [][Next]_vars

SpecDecode == InitDecode /\ [][Next]_vars

SpecSync == InitSync /\ [][Next]_vars

----------------------------------------------------------------------------
(* Vocabulary of the properties, stated on the document and not through    *)
(* the decoder's operators.                                                *)

Events == TraceEvents(data)

Subjects == {HdrA, HdrB, HdrIncA}

SubjectOf(ev) ==
    IF "args" \notin DOMAIN ev THEN <<>>
    ELSE IF "file" \in DOMAIN ev.args /\ ev.args.file # <<>> THEN ev.args.file
    ELSE IF "detail" \in DOMAIN ev.args THEN ev.args.detail
    ELSE <<>>

IsAcceptedComplete(ev) ==
    /\ ev.ph = "X"
    /\ ev.name \in {"Source", "ParseFile", "ParseClass", "ParseTemplate",
                    "InstantiateFunction", "InstantiateClass"}
    /\ SubjectOf(ev) # <<>>

IsSourceBegin(ev) == ev.ph \in {"B", "b"} /\ ev.name = "Source"

IsSourceEnd(ev) == ev.ph \in {"E", "e"} /\ ev.name = "Source"

\* The milliseconds of a number of microseconds.
Millis(us) == Rat(us, 1000)

IsMaxOf(v, D) == v \in D /\ \A d \in D : ~RatLess(v, d)

\* The durations of the accepted Complete events of subject s.
CompleteDurs(s) ==
    {Millis(Events[i].dur) :
        i \in {k \in 1..Len(Events) :
                 IsAcceptedComplete(Events[k]) /\ SubjectOf(Events[k]) = s}}

OnlyComplete(s) ==
    \A i \in 1..Len(Events) : SubjectOf(Events[i]) = s => Events[i].ph = "X"

\* C1: when every event of a subject is a Complete ('X') event, the decoder
\* returns for it the maximum of dur/1000 over its accepted events (and no
\* entry when none is accepted), whatever the order of the records.
C1_CompleteMax ==
    pc = "returned" =>
        \A s \in Subjects :
            OnlyComplete(s) =>
                IF CompleteDurs(s) = {}
                THEN s \notin DOMAIN header_times
                ELSE /\ s \in DOMAIN header_times
                     /\ IsMaxOf(header_times[s], CompleteDurs(s))

\* A larger record of a.h is followed by a smaller one and the larger is kept.
C1_Witness ==
    /\ pc = "returned"
    /\ OnlyComplete(HdrA)
    /\ \E i, j \in 1..Len(Events) :
          /\ i < j
          /\ IsAcceptedComplete(Events[i]) /\ SubjectOf(Events[i]) = HdrA
          /\ IsAcceptedComplete(Events[j]) /\ SubjectOf(Events[j]) = HdrA
          /\ Events[j].dur < Events[i].dur
          /\ header_times[HdrA] = Millis(Events[i].dur)

\* Event i opens subject s and event j is the next 'Source' begin or end event
\* of the same thread, an end event.
DirectPair(i, j) ==
    /\ i < j
    /\ IsSourceBegin(Events[i]) /\ SubjectOf(Events[i]) # <<>>
    /\ IsSourceEnd(Events[j])
    /\ Events[i].tid = Events[j].tid
    /\ \A k \in (i + 1)..(j - 1) :
          (IsSourceBegin(Events[k]) \/ IsSourceEnd(Events[k]))
              => Events[k].tid # Events[i].tid

\* Subject s is reported once by an accepted Complete event, k, and once by a
\* begin/end pair, (i, j).
BothWays(s, k, i, j) ==
    /\ IsAcceptedComplete(Events[k]) /\ SubjectOf(Events[k]) = s
    /\ \A m \in 1..Len(Events) :
          (IsAcceptedComplete(Events[m]) /\ SubjectOf(Events[m]) = s) => m = k
    /\ DirectPair(i, j) /\ SubjectOf(Events[i]) = s
    /\ \A m \in 1..Len(Events) :
          (IsSourceBegin(Events[m]) /\ SubjectOf(Events[m]) = s) => m = i

\* C3: a subject reported by an accepted Complete event and by a matched
\* begin/end pair gets the larger of the two durations, wherever the
\* Complete event stands in the document.
C3_MergeByMax ==
    pc = "returned" =>
        \A s \in Subjects : \A k, i, j \in 1..Len(Events) :
            BothWays(s, k, i, j) =>
                /\ s \in DOMAIN header_times
                /\ IsMaxOf(header_times[s],
                           {Millis(Events[k].dur),
                            Millis(Events[j].ts - Events[i].ts)})

\* The Complete event comes after the pair and is the smaller one.
C3_Witness ==
    /\ pc = "returned"
    /\ \E s \in Subjects : \E k, i, j \in 1..Len(Events) :
          /\ BothWays(s, k, i, j)
          /\ j < k
          /\ Events[k].dur < Events[j].ts - Events[i].ts
          /\ header_times[s] = Millis(Events[j].ts - Events[i].ts)

\* The stack of a key of the defaultdict, as a read of it returns it.
StackOf(oe, key) == IF key \in DOMAIN oe THEN oe[key] ELSE <<>>

Tids == {0, 1, 2}

\* The second pass is about to read an end event whose key has no open entry.
AtUnmatchedEnd ==
    /\ pc = "pass2"
    /\ ev_idx <= Len(Events)
    /\ IsSourceEnd(Events[ev_idx])
    /\ StackOf(open_events, Events[ev_idx].tid) = <<>>

\* No end event of its thread follows any begin event of subject s.
NeverClosed(s) ==
    \A i \in 1..Len(Events) :
        (IsSourceBegin(Events[i]) /\ SubjectOf(Events[i]) = s) =>
            \A j \in (i + 1)..Len(Events) :
                ~(IsSourceEnd(Events[j]) /\ Events[j].tid = Events[i].tid)

UnmatchedEndAbsorbed ==
    AtUnmatchedEnd =>
        /\ pc' = "pass2"
        /\ header_times' = header_times
        /\ \A key \in Tids : StackOf(open_events', key) = StackOf(open_events, key)

UnmatchedBeginSilent ==
    pc = "returned" =>
        \A s \in Subjects :
            (CompleteDurs(s) = {} /\ NeverClosed(s)) => s \notin DOMAIN header_times

----------------------------------------------------------------------------
(* Begin/end pairing. *)

\* The pairs <<begin, end>> of a last-in-first-out matching of the 'Source'
\* begin and end events of one thread; open holds the still-open begin events.
RECURSIVE LifoPairs(_, _, _)
LifoPairs(events, i, open) ==
    IF i > Len(events) THEN {}
    ELSE IF IsSourceBegin(events[i])
         THEN LifoPairs(events, i + 1, Append(open, i))
    ELSE IF IsSourceEnd(events[i]) /\ open # <<>>
         THEN {<<open[Len(open)], i>>}
                \cup LifoPairs(events, i + 1, SubSeq(open, 1, Len(open) - 1))
    ELSE LifoPairs(events, i + 1, open)

\* Every end event closes a begin event and no begin event stays open.
RECURSIVE Balanced(_, _, _)
Balanced(events, i, depth) ==
    IF i > Len(events) THEN depth = 0
    ELSE IF IsSourceBegin(events[i]) THEN Balanced(events, i + 1, depth + 1)
    ELSE IF IsSourceEnd(events[i])
         THEN depth > 0 /\ Balanced(events, i + 1, depth - 1)
    ELSE Balanced(events, i + 1, depth)

\* The durations the matching gives subject s.
PairDurs(s) ==
    {Millis(Events[p[2]].ts - Events[p[1]].ts) :
        p \in {q \in LifoPairs(Events, 1, <<>>) : SubjectOf(Events[q[1]]) = s}}

PairedExactly ==
    \A s \in Subjects :
        IF PairDurs(s) = {}
        THEN s \notin DOMAIN header_times
        ELSE /\ s \in DOMAIN header_times
             /\ IsMaxOf(header_times[s], PairDurs(s))

\* C2: in a well-balanced sequence of 'Source' begin/end events of one thread
\* each end event is paired with the innermost still-open begin event, whose
\* subject gets (end.ts - begin.ts)/1000 (the largest one, for a subject of
\* several pairs).
C2_LifoPairing ==
    (pc = "returned" /\ Balanced(Events, 1, 0)) => PairedExactly

\* The same when every begin event names its subject: the decoder pushes no
\* entry for a begin event without one, and only then do the two differ.
LifoPairingOfNamedBegins ==
    (/\ pc = "returned"
     /\ Balanced(Events, 1, 0)
     /\ \A i \in 1..Len(Events) :
           IsSourceBegin(Events[i]) => SubjectOf(Events[i]) # <<>>)
        => PairedExactly

IsAsyncBegin(ev) == ev.ph = "b" /\ ev.name = "Source" /\ "id" \in DOMAIN ev

IsAsyncEnd(ev) == ev.ph = "e" /\ ev.name = "Source" /\ "id" \in DOMAIN ev

\* Event j is the first asynchronous end event with the async-id of the
\* asynchronous begin event i.
AsyncPair(i, j) ==
    /\ i < j
    /\ IsAsyncBegin(Events[i]) /\ SubjectOf(Events[i]) # <<>>
    /\ IsAsyncEnd(Events[j])
    /\ Events[i].id = Events[j].id
    /\ \A k \in (i + 1)..(j - 1) :
          (IsAsyncBegin(Events[k]) \/ IsAsyncEnd(Events[k]))
              => Events[k].id # Events[i].id

\* Subject s is reported by asynchronous begin events only, the end events of
\* the document are asynchronous, and none carries the async-id of one of them.
AsyncNeverClosed(s) ==
    /\ \A i \in 1..Len(Events) :
          SubjectOf(Events[i]) = s => IsAsyncBegin(Events[i])
    /\ \A j \in 1..Len(Events) : IsSourceEnd(Events[j]) => IsAsyncEnd(Events[j])
    /\ \A i, j \in 1..Len(Events) :
          (SubjectOf(Events[i]) = s /\ i < j /\ IsAsyncEnd(Events[j]))
              => Events[j].id # Events[i].id

\* C6: an asynchronous end event closes the open asynchronous begin event of
\* its async-id, on whatever thread either stands, and a begin event that
\* shares only the thread-id of an end event is not closed by it.
C6_AsyncById ==
    pc = "returned" =>
        /\ \A i, j \in 1..Len(Events) :
              AsyncPair(i, j) =>
                  /\ SubjectOf(Events[i]) \in DOMAIN header_times
                  /\ ~RatLess(header_times[SubjectOf(Events[i])],
                              Millis(Events[j].ts - Events[i].ts))
        /\ \A s \in Subjects :
              AsyncNeverClosed(s) => s \notin DOMAIN header_times

UpperPh(ph) ==
    CASE ph = "x" -> "X"
      [] ph = "b" -> "B"
      [] ph = "e" -> "E"
      [] OTHER    -> ph

UpperEvent(ev) == [f \in DOMAIN ev |-> IF f = "ph" THEN UpperPh(ev[f]) ELSE ev[f]]

UpperDoc(doc) ==
    [traceEvents |-> [i \in 1..Len(TraceEvents(doc)) |-> UpperEvent(TraceEvents(doc)[i])]]

\* C9: a document decodes to the mapping of the same document with its phase
\* letters in upper case.
C9_PhaseCaseInsensitive ==
    pc = "returned" => header_times = ParseTraceFile(UpperDoc(data))

\* The same for the documents without a lower-case 'x': the letters of the
\* begin and end events are read in either case.
BeginEndCaseInsensitive ==
    (pc = "returned" /\ \A i \in 1..Len(Events) : Events[i].ph # "x")
        => header_times = ParseTraceFile(UpperDoc(data))

----------------------------------------------------------------------------
(* Aggregation. *)

\* header has a requested identifier as a substring: header = u \o p \o v.
ContainsRequested(header) ==
    \E p \in headers : \E a \in 0..Len(header) : \E b \in a..Len(header) :
        SubSeq(header, a + 1, b) = p

\* The files, among the first n, that report subject h.
FilesReporting(h, n) ==
    {i \in 1..n : /\ JsonLoads(trace_files[i])
                  /\ h \in DOMAIN ParseTraceFile(trace_files[i])}

\* The subjects and the requested identifiers of the run.
Keys == Subjects \cup UNION HeaderSets

\* C7: an observation is retained iff its raw subject contains a requested
\* identifier, under the raw subject as key and with the file's duration;
\* nothing is retained for an empty set of requested identifiers.
C7_SubstringFilter ==
    /\ \A h \in Keys :
          (h \in DOMAIN durations /\ durations[h] # <<>>)
              <=> (FilesReporting(h, file_idx) # {} /\ ContainsRequested(h))
    /\ \A h \in DOMAIN durations : \A k \in 1..Len(durations[h]) :
          \E i \in FilesReporting(h, file_idx) :
              /\ Cardinality({j \in FilesReporting(h, file_idx) : j <= i}) = k
              /\ durations[h][k] = ParseTraceFile(trace_files[i])[h]
    /\ headers = {} => durations = EmptyDict

\* Requested 'a.h': the raw subject 'i/a.h' is a key of the result, 'a.h' is
\* not, and the 'b.h' of an aggregated file is dropped.
C7_Witness ==
    /\ pc = "done"
    /\ headers = {HdrA}
    /\ HdrIncA \in DOMAIN metrics_by_header
    /\ HdrA \notin DOMAIN metrics_by_header
    /\ FilesReporting(HdrB, Len(trace_files)) # {}
    /\ HdrB \notin DOMAIN durations

\* C8: parse_count is the number of files that report the subject, for the
\* subjects that pass the filter, between 1 and the number of files; the other
\* subjects are absent; std_dev is 0 for a parse_count of 1.
C8_ParseCount ==
    pc = "done" =>
        \A h \in Keys :
            IF FilesReporting(h, Len(trace_files)) # {} /\ ContainsRequested(h)
            THEN /\ h \in DOMAIN metrics_by_header
                 /\ metrics_by_header[h].parse_count
                        = Cardinality(FilesReporting(h, Len(trace_files)))
                 /\ metrics_by_header[h].parse_count \in 1..Len(trace_files)
                 /\ metrics_by_header[h].parse_count = 1
                        => metrics_by_header[h].std_dev.radicand = Zero
            ELSE h \notin DOMAIN metrics_by_header

\* Two files report 'i/a.h', 2000 and 4000 microseconds, and two requested
\* identifiers match it: total 6, average 3, maximum 4, variance 2, count 2.
C8_Witness ==
    /\ pc = "done"
    /\ headers = {HdrA, <<"i", "/">>}
    /\ HdrIncA \in DOMAIN metrics_by_header
    /\ metrics_by_header[HdrIncA] =
          [total_time  |-> Rat(6, 1),
           avg_time    |-> Rat(3, 1),
           max_time    |-> Rat(4, 1),
           std_dev     |-> [radicand |-> Rat(2, 1)],
           parse_count |-> 2]

\* analyze_parse_times over a sequence of loadable files, as a function.
RECURSIVE AggregateAll(_, _)
AggregateAll(files, patterns) ==
    IF files = <<>> THEN EmptyDict
    ELSE AppendMatching(AggregateAll(SubSeq(files, 1, Len(files) - 1), patterns),
                        ParseTraceFile(files[Len(files)]), patterns)

Orders(n) == {f \in [1..n -> 1..n] : \A i, j \in 1..n : f[i] = f[j] => i = j}

Permuted(files, f) == [i \in 1..Len(files) |-> files[f[i]]]

Count(seq, v) == Cardinality({i \in 1..Len(seq) : seq[i] = v})

SameMultiset(s1, s2) ==
    /\ Len(s1) = Len(s2)
    /\ \A i \in 1..Len(s1) : Count(s1, s1[i]) = Count(s2, s1[i])

WellFormed(files) == SelectSeq(files, JsonLoads)

\* C5: a file that fails to parse does not abort the run, whose result is that
\* of the well-formed files alone.
C5_MalformedSkipped ==
    /\ pc # "raised"
    /\ pc = "done" =>
          metrics_by_header = Metrics(AggregateAll(WellFormed(trace_files), headers))

====
